---- MODULE Spec2Model ----
(***************************************************************************)
(* A model of the proquints crate (src/src/lib.rs): the encoder            *)
(* proquints_buf, the sizing helper output_length, the convenience form    *)
(* proquints and the Proquint implementations that turn typed values into  *)
(* bytes.  One call is modelled statement by statement; a panic is the     *)
(* terminal state pc = "panic" with its cause in the variable panic.       *)
(*                                                                         *)
(* Bytes are the integers 0..255, characters are their ASCII codes.        *)
(* usize is modelled at the width UsizeBits; the code compares lengths     *)
(* only with usize::MAX and isize::MAX, so the width changes no outcome.   *)
(* A u16/u32/u64 value is the sequence of its base-65536 digits, least     *)
(* significant first (value[1] is the low 16 bits).                        *)
(***************************************************************************)
EXTENDS Integers, Sequences, FiniteSets, TLC

VARIABLES call, kind, value, overflow_checks, input, buf, separator,
          i, c, b, pc, panic, result, writes

vars == <<call, kind, value, overflow_checks, input, buf, separator,
          i, c, b, pc, panic, result, writes>>

----------------------------------------------------------------------------
(* Bounds of the model.                                                    *)

\* Inputs have 0 .. 2*MaxBlocks+1 bytes (odd lengths included).
MaxBlocks == 2

\* Caller buffers have 0 .. output_length(2*MaxBlocks)+MaxExtra bytes.
MaxExtra == 1

----------------------------------------------------------------------------
(* Machine arithmetic.                                                     *)

\* Width of usize in bits.
UsizeBits == 16

USIZE_MAX == 2^UsizeBits - 1

\* The largest allocation a Vec accepts (isize::MAX bytes).
ISIZE_MAX == 2^(UsizeBits - 1) - 1

RECURSIVE BitAnd(_, _)
\* x & y on naturals.
BitAnd(x, y) ==
    IF x = 0 \/ y = 0 THEN 0
    ELSE (x % 2) * (y % 2) + 2 * BitAnd(x \div 2, y \div 2)

RECURSIVE BitOr(_, _)
\* x | y on naturals.
BitOr(x, y) ==
    IF x = 0 THEN y
    ELSE IF y = 0 THEN x
    ELSE (IF x % 2 = 1 \/ y % 2 = 1 THEN 1 ELSE 0) + 2 * BitOr(x \div 2, y \div 2)

\* x >> n.
Shr(x, n) == x \div (2^n)

\* x << n on a u16.
Shl16(x, n) == (x * 2^n) % 65536

----------------------------------------------------------------------------
(* The symbol tables.                                                      *)

\* The byte literal b'x' of a one-character string.
Ascii ==
    ("-" :> 45) @@ ("_" :> 95) @@
    ("a" :> 97) @@ ("b" :> 98) @@ ("d" :> 100) @@ ("f" :> 102) @@ ("g" :> 103) @@
    ("h" :> 104) @@ ("i" :> 105) @@ ("j" :> 106) @@ ("k" :> 107) @@ ("l" :> 108) @@
    ("m" :> 109) @@ ("n" :> 110) @@ ("o" :> 111) @@ ("p" :> 112) @@ ("r" :> 114) @@
    ("s" :> 115) @@ ("t" :> 116) @@ ("u" :> 117) @@ ("v" :> 118) @@ ("z" :> 122)

\* The bytes of a string given as a tuple of one-character strings.
Bytes(str) == [k \in 1..Len(str) |-> Ascii[str[k]]]

CONSONANTS ==
    Bytes(<<"b", "d", "f", "g", "h", "j", "k", "l", "m", "n", "p", "r", "s", "t", "v", "z">>)

VOWELS == Bytes(<<"a", "i", "o", "u">>)

----------------------------------------------------------------------------
(* The pure parts of the encoder.                                          *)

OutputLengthNoMinus(input_length) == (input_length \div 2) * 6

\* output_length: ((input_length / 2) * 6) - 1 in wrapping arithmetic.  With
\* overflow checks the subtraction panics instead when it underflows.
output_length(input_length) ==
    (((input_length \div 2) * 6) - 1) % (USIZE_MAX + 1)

\* Whether the subtraction of output_length underflows.
output_length_underflows(input_length) == (input_length \div 2) * 6 < 1

BlockLittleEndian(hi, lo) == BitOr(Shl16(lo, 8), hi)

\* Line 41: the 16-bit block of two consecutive input bytes.
Block(hi, lo) == BitOr(Shl16(hi, 8), lo)

SyllableShiftedVowel(blk) ==
    << CONSONANTS[Shr(BitAnd(blk, 61440), 12) + 1],
       VOWELS[Shr(BitAnd(blk, 3072), 10) + 1],
       CONSONANTS[Shr(BitAnd(blk, 960), 6) + 1],
       VOWELS[Shr(BitAnd(blk, 192), 6) + 1],
       CONSONANTS[BitAnd(blk, 15) + 1] >>

SyllableConsonantForVowel(blk) ==
    << CONSONANTS[Shr(BitAnd(blk, 61440), 12) + 1],
       CONSONANTS[Shr(BitAnd(blk, 3072), 10) + 1],
       CONSONANTS[Shr(BitAnd(blk, 960), 6) + 1],
       VOWELS[Shr(BitAnd(blk, 48), 4) + 1],
       CONSONANTS[BitAnd(blk, 15) + 1] >>

SyllableNarrowMask(blk) ==
    << CONSONANTS[Shr(BitAnd(blk, 61440), 12) + 1],
       VOWELS[Shr(BitAnd(blk, 3072), 10) + 1],
       CONSONANTS[Shr(BitAnd(blk, 960), 6) + 1],
       VOWELS[Shr(BitAnd(blk, 48), 4) + 1],
       CONSONANTS[BitAnd(blk, 7) + 1] >>

\* Lines 43-51: the five characters written for one block, in write order.
Syllable(blk) ==
    << CONSONANTS[Shr(BitAnd(blk, 61440), 12) + 1],
       VOWELS[Shr(BitAnd(blk, 3072), 10) + 1],
       CONSONANTS[Shr(BitAnd(blk, 960), 6) + 1],
       VOWELS[Shr(BitAnd(blk, 48), 4) + 1],
       CONSONANTS[BitAnd(blk, 15) + 1] >>

IsEvenAlways(n) == TRUE

\* Line 36: the condition of the first assertion.
IsEven(n) == n % 2 = 0

\* Line 37: the condition of the second assertion.
BufAssertion(out_len, buf_len) == out_len >= buf_len

----------------------------------------------------------------------------
(* The Proquint implementations.                                           *)

to_le_bytes(v, n) ==
    [j \in 1..n |->
        LET digit == v[((j - 1) \div 2) + 1]
        IN  IF (j - 1) % 2 = 1 THEN Shr(digit, 8) ELSE BitAnd(digit, 255)]

\* to_be_bytes of an n-byte unsigned integer: byte j (from 1) is
\* (v >> 8*(n-j)) & 0xFF, taken from the base-65536 digit that holds it.
to_be_bytes(v, n) ==
    [j \in 1..n |->
        LET digit == v[((n - j) \div 2) + 1]
        IN  IF (n - j) % 2 = 1 THEN Shr(digit, 8) ELSE BitAnd(digit, 255)]

\* size_of of each integer type.
SizeOf(k) ==
    CASE k = "u16" -> 2
      [] k = "u32" -> 4
      [] k = "u64" -> 8
      [] k = "usize" -> UsizeBits \div 8

\* Proquint::as_bytes for each implementing type.
as_bytes(k, v) ==
    CASE k = "slice" -> v
      [] k \in {"u16", "u32", "u64", "usize"} -> to_be_bytes(v, SizeOf(k))
      [] k \in {"ipv4", "ipv6"} -> v

----------------------------------------------------------------------------
(* The inputs of the model.                                                *)

\* tests/unit.rs: the addresses of the test `simple` and the strings expected.
KnownVectors ==
    { << <<127, 0, 0, 1>>,      <<"l","u","s","a","b","-","b","a","b","a","d">> >>,
      << <<63, 84, 220, 193>>,  <<"g","u","t","i","h","-","t","u","g","a","d">> >>,
      << <<63, 118, 7, 35>>,    <<"g","u","t","u","k","-","b","i","s","o","g">> >>,
      << <<140, 98, 193, 141>>, <<"m","u","d","o","f","-","s","a","k","a","t">> >>,
      << <<64, 255, 6, 200>>,   <<"h","a","g","u","z","-","b","i","r","a","m">> >>,
      << <<128, 30, 52, 45>>,   <<"m","a","b","i","v","-","g","i","b","o","t">> >>,
      << <<147, 67, 119, 2>>,   <<"n","a","t","a","g","-","l","i","s","a","f">> >>,
      << <<212, 58, 253, 68>>,  <<"t","i","b","u","p","-","z","u","j","a","h">> >>,
      << <<216, 35, 68, 215>>,  <<"t","o","b","o","g","-","h","i","g","i","l">> >>,
      << <<216, 68, 232, 21>>,  <<"t","o","d","a","h","-","v","o","b","i","j">> >>,
      << <<198, 81, 129, 136>>, <<"s","i","n","i","d","-","m","a","k","a","m">> >>,
      << <<12, 110, 110, 204>>, <<"b","u","d","o","v","-","k","u","r","a","s">> >> }

KnownInputs == {v[1] : v \in KnownVectors}

\* Two complementary bytes, 0b0001_1011 and 0b1110_0100: between them every
\* two-bit field takes each of its four values.
ByteSample == {27, 228}

\* The byte slices given to the encoder: every sequence over ByteSample of
\* 0 .. 2*MaxBlocks+1 bytes, and the addresses of the test.
InputSample ==
    UNION {[1..n -> ByteSample] : n \in 0..(2 * MaxBlocks + 1)} \cup KnownInputs

\* The 16-bit digits of the integer inputs.
DigitSample == {0, 1, 32512, 65535}

\* The typed values given to proquints, by implementing type.
ValueSample(k) ==
    CASE k = "slice" -> InputSample
      [] k \in {"u16", "u32", "u64", "usize"} -> [1..(SizeOf(k) \div 2) -> DigitSample]
      [] k = "ipv4" -> KnownInputs
      [] k = "ipv6" -> { [j \in 1..16 |-> 0],
                         [j \in 1..16 |-> IF j = 16 THEN 1 ELSE 0],
                         [j \in 1..16 |-> 255],
                         <<32, 1, 13, 184, 0, 0, 0, 0, 0, 0, 255, 0, 0, 66, 131, 41>> }

Kinds == {"slice", "u16", "u32", "u64", "usize", "ipv4", "ipv6"}

\* The lengths of the caller's buffer.
BufLens == 0..((MaxBlocks * 6 - 1) + MaxExtra)

\* The separators the caller chooses: ASCII characters, '-' and '_'.
Separators == {Ascii["-"], Ascii["_"]}

\* A buffer of n zero bytes (vec![0u8; n]; the caller's buffer starts the same).
Zeroed(n) == [k \in 1..n |-> 0]

----------------------------------------------------------------------------
(* The state after the caller has made its call.                           *)

\* proquints(input): nothing has run yet.
InitProquints ==
    /\ call = "proquints"
    /\ kind \in Kinds
    /\ value \in ValueSample(kind)
    /\ input = <<>>
    /\ buf = <<>>
    /\ separator = 0
    /\ writes = <<>>
    /\ pc = "as_bytes"

\* proquints_buf(input, buf, separator) called directly with a byte slice.
InitProquintsBuf ==
    /\ call = "proquints_buf"
    /\ kind = "slice"
    /\ value \in InputSample
    /\ input = value
    /\ \E n \in BufLens : buf = Zeroed(n) /\ writes = Zeroed(n)
    /\ separator \in Separators
    /\ pc = "assert_even"

Init ==
    /\ overflow_checks \in BOOLEAN
    /\ i = 0
    /\ c = 0
    /\ b = 0
    /\ panic = "none"
    /\ result = <<>>
    /\ \/ InitProquints
       \/ InitProquintsBuf

----------------------------------------------------------------------------
(* The steps of a call.                                                    *)

Panic(cause) ==
    /\ pc' = "panic"
    /\ panic' = cause

\* Lines 20-21: input.as_bytes().as_ref().
AsBytes ==
    /\ pc = "as_bytes"
    /\ input' = as_bytes(kind, value)
    /\ pc' = "alloc"
    /\ UNCHANGED <<call, kind, value, overflow_checks, buf, separator, i, c, b,
                   panic, result, writes>>

\* Lines 22-23: vec![0u8; output_length(input.len())], then the call of
\* proquints_buf with b'-'.
Alloc ==
    /\ pc = "alloc"
    /\ IF overflow_checks /\ output_length_underflows(Len(input))
       THEN Panic("overflow") /\ UNCHANGED <<buf, separator, writes>>
       ELSE IF output_length(Len(input)) > ISIZE_MAX
       THEN Panic("capacity") /\ UNCHANGED <<buf, separator, writes>>
       ELSE /\ buf' = Zeroed(output_length(Len(input)))
            /\ writes' = Zeroed(output_length(Len(input)))
            /\ separator' = Ascii["-"]
            /\ pc' = "assert_even"
            /\ UNCHANGED panic
    /\ UNCHANGED <<call, kind, value, overflow_checks, input, i, c, b, result>>

\* Line 36: assert!(input.len() % 2 == 0).
AssertEven ==
    /\ pc = "assert_even"
    /\ IF IsEven(Len(input))
       THEN pc' = "assert_buf" /\ UNCHANGED panic
       ELSE Panic("assert_even")
    /\ UNCHANGED <<call, kind, value, overflow_checks, input, buf, separator,
                   i, c, b, result, writes>>

\* Lines 37-39: assert!(output_length(input.len()) >= buf.len()), i = 0, c = 0.
AssertBuf ==
    /\ pc = "assert_buf"
    /\ IF overflow_checks /\ output_length_underflows(Len(input))
       THEN Panic("overflow")
       ELSE IF BufAssertion(output_length(Len(input)), Len(buf))
       THEN pc' = "loop" /\ UNCHANGED panic
       ELSE Panic("assert_buf")
    /\ i' = 0
    /\ c' = 0
    /\ UNCHANGED <<call, kind, value, overflow_checks, input, buf, separator,
                   b, result, writes>>

\* Line 40: while c < input.len().
LoopTest ==
    /\ pc = "loop"
    /\ pc' = IF c < Len(input) THEN "block" ELSE "return"
    /\ UNCHANGED <<call, kind, value, overflow_checks, input, buf, separator,
                   i, c, b, panic, result, writes>>

\* Lines 41-42: b = (input[c] << 8) | input[c + 1]; c += 2.  The indexing is
\* bounds-checked.
ReadBlock ==
    /\ pc = "block"
    /\ IF c + 1 < Len(input)
       THEN /\ b' = Block(input[c + 1], input[c + 2])
            /\ c' = c + 2
            /\ pc' = "write1"
            /\ UNCHANGED panic
       ELSE Panic("index") /\ UNCHANGED <<b, c>>
    /\ UNCHANGED <<call, kind, value, overflow_checks, input, buf, separator,
                   i, result, writes>>

WriteLabels == <<"write1", "write2", "write3", "write4", "write5", "separator">>

\* Lines 43-52: buf[i] = <k-th character of the syllable of b>; i += 1, for
\* k = 1..5.  The indexing is bounds-checked.
WriteChar ==
    /\ \E k \in 1..5 :
        /\ pc = WriteLabels[k]
        /\ IF i < Len(buf)
           THEN /\ buf' = [buf EXCEPT ![i + 1] = Syllable(b)[k]]
                /\ writes' = [writes EXCEPT ![i + 1] = @ + 1]
                /\ i' = i + 1
                /\ pc' = WriteLabels[k + 1]
                /\ UNCHANGED panic
           ELSE Panic("index") /\ UNCHANGED <<buf, writes, i>>
    /\ UNCHANGED <<call, kind, value, overflow_checks, input, separator, c, b,
                   result>>

\* Lines 53-56: if i != buf.len() { buf[i] = separator; i += 1 }.
WriteSeparator ==
    /\ pc = "separator"
    /\ IF i # Len(buf)
       THEN IF i < Len(buf)
            THEN /\ buf' = [buf EXCEPT ![i + 1] = separator]
                 /\ writes' = [writes EXCEPT ![i + 1] = @ + 1]
                 /\ i' = i + 1
                 /\ pc' = "loop"
                 /\ UNCHANGED panic
            ELSE Panic("index") /\ UNCHANGED <<buf, writes, i>>
       ELSE pc' = "loop" /\ UNCHANGED <<buf, writes, i, panic>>
    /\ UNCHANGED <<call, kind, value, overflow_checks, input, separator, c, b,
                   result>>

\* Line 59: str::from_utf8_unchecked(&buf[..i]), the view proquints_buf
\* returns; proquints drops it.
Return ==
    /\ pc = "return"
    /\ IF call = "proquints_buf"
       THEN result' = SubSeq(buf, 1, i) /\ pc' = "done"
       ELSE result' = result /\ pc' = "to_string"
    /\ UNCHANGED <<call, kind, value, overflow_checks, input, buf, separator,
                   i, c, b, panic, writes>>

\* Line 25: String::from_utf8_unchecked(buf), the whole vector.
IntoString ==
    /\ pc = "to_string"
    /\ result' = buf
    /\ pc' = "done"
    /\ UNCHANGED <<call, kind, value, overflow_checks, input, buf, separator,
                   i, c, b, panic, writes>>

Next ==
    \/ AsBytes
    \/ Alloc
    \/ AssertEven
    \/ AssertBuf
    \/ LoopTest
    \/ ReadBlock
    \/ WriteChar
    \/ WriteSeparator
    \/ Return
    \/ IntoString

Spec == Init /\ [][Next]_vars

----------------------------------------------------------------------------
(* What the claims are stated with: the tables and the encoding as the     *)
(* specification writes them, in plain integer arithmetic.                 *)

ClaimConsonants ==
    Bytes(<<"b", "d", "f", "g", "h", "j", "k", "l", "m", "n", "p", "r", "s", "t", "v", "z">>)

ClaimVowels == Bytes(<<"a", "i", "o", "u">>)

ConsonantSet == {ClaimConsonants[k] : k \in 1..16}

VowelSet == {ClaimVowels[k] : k \in 1..4}

\* The syllable of the 16-bit value v.
ClaimSyllable(v) ==
    << ClaimConsonants[((v \div 4096) % 16) + 1],
       ClaimVowels[((v \div 1024) % 4) + 1],
       ClaimConsonants[((v \div 64) % 16) + 1],
       ClaimVowels[((v \div 16) % 4) + 1],
       ClaimConsonants[(v % 16) + 1] >>

\* The character at position p (from 0) of the encoding of inp with sep.
ClaimChar(inp, sep, p) ==
    LET k == p \div 6
        v == inp[2 * k + 1] * 256 + inp[2 * k + 2]
    IN  IF p % 6 = 5 THEN sep ELSE ClaimSyllable(v)[(p % 6) + 1]

\* L/2 syllables in input order with sep between them: (L/2)*6 - 1 characters.
ClaimEncoding(inp, sep) ==
    [p \in 1..((Len(inp) \div 2) * 6 - 1) |-> ClaimChar(inp, sep, p - 1)]

\* The call has its input bytes, and they are a positive even number.
ValidInput == pc # "as_bytes" /\ Len(input) > 0 /\ Len(input) % 2 = 0

\* The separator of the call: b'-' for proquints, the caller's otherwise.
CallSeparator == IF call = "proquints" THEN Ascii["-"] ELSE separator

Unwritten == \A p \in 1..Len(writes) : writes[p] = 0

Blocks == 0..65535

\* The syllable the code writes for every 16-bit block.
SyllableOf == [v \in Blocks |-> Syllable(v)]

SyllableImage == {SyllableOf[v] : v \in Blocks}

\* The code's five lookups give the specification's syllable for every block.
SyllablesAgree == \A v \in Blocks : SyllableOf[v] = ClaimSyllable(v)

\* Byte j (from 1) of the n-byte most-significant-first form of the integer
\* with base-65536 digits v.
ClaimByte(v, n, j) ==
    IF (n - j) % 2 = 1
    THEN v[((n - j) \div 2) + 1] \div 256
    ELSE v[((n - j) \div 2) + 1] % 256

----------------------------------------------------------------------------
(* The claims.                                                             *)

\* C1: whenever proquints or proquints_buf returns for an input of positive
\* even length L, the string is the L/2 syllables of the big-endian blocks in
\* input order, each consonant and vowel taken from the tables at the five bit
\* fields of the block, with the separator of the call ('-' for proquints)
\* between them; the lookups agree with the tables on all 65,536 blocks.
\* Separators are ASCII characters.
C1_SyllablesInInputOrder ==
    (pc = "done" /\ ValidInput) =>
        /\ result = ClaimEncoding(input, CallSeparator)
        /\ SyllablesAgree

C1_Witness ==
    /\ pc = "done"
    /\ call = "proquints_buf"
    /\ separator = Ascii["_"]
    /\ Len(input) = 4
    /\ input[1] # input[2]
    /\ input[3] # input[4]

\* C2: for an input of even length L > 0, proquints returns exactly
\* (L/2)*6 - 1 characters, and the loop of proquints_buf on a buffer of that
\* length never indexes out of bounds, writes no position twice and ends with
\* the write index at the buffer length and every position written once.
C2_LengthLaw ==
    ValidInput =>
        /\ (pc = "done" /\ call = "proquints")
              => Len(result) = (Len(input) \div 2) * 6 - 1
        /\ Len(buf) = (Len(input) \div 2) * 6 - 1 =>
              /\ panic # "index"
              /\ \A p \in 1..Len(writes) : writes[p] <= 1
              /\ pc \in {"return", "to_string", "done"} =>
                    /\ i = Len(buf)
                    /\ \A p \in 1..Len(writes) : writes[p] = 1

C2_Witness ==
    /\ pc = "done"
    /\ call = "proquints"
    /\ Len(input) = 4
    /\ Len(result) = 11
    /\ i = 11

\* C3: in the string returned for an input of positive even length, position
\* p (from 0) holds a consonant when p mod 6 is 0, 2 or 4, a vowel when it is
\* 1 or 3 and the separator of the call when it is 5; the last character is a
\* consonant, so no separator trails.
C3_SyllableStructure ==
    (pc = "done" /\ ValidInput) =>
        /\ Len(result) > 0
        /\ \A p \in 0..(Len(result) - 1) :
              /\ p % 6 \in {0, 2, 4} => result[p + 1] \in ConsonantSet
              /\ p % 6 \in {1, 3} => result[p + 1] \in VowelSet
              /\ p % 6 = 5 => result[p + 1] = CallSeparator
        /\ (Len(result) - 1) % 6 = 4
        /\ result[Len(result)] \in ConsonantSet

C3_Witness ==
    /\ pc = "done"
    /\ call = "proquints_buf"
    /\ separator = Ascii["_"]
    /\ Len(result) = 11
    /\ result[6] = Ascii["_"]

\* C4: the string proquints returns for a 2-byte slice X is the syllable of no
\* 16-bit block other than X's, and the 65,536 blocks have 65,536 distinct
\* syllables.
C4_BlockInjective ==
    (pc = "done" /\ call = "proquints" /\ kind = "slice" /\ Len(input) = 2) =>
        /\ \A v \in Blocks :
              SyllableOf[v] = result => v = input[1] * 256 + input[2]
        /\ Cardinality(SyllableImage) = Cardinality(Blocks)

C4_Witness ==
    /\ pc = "done"
    /\ call = "proquints"
    /\ kind = "slice"
    /\ Len(input) = 2
    /\ input[1] # input[2]

\* C5: proquints of each 4-byte address of the reference list returns exactly
\* the reference string.
C5_KnownVectors ==
    \A v \in KnownVectors :
        (pc = "done" /\ call = "proquints" /\ kind = "slice" /\ value = v[1])
            => result = Bytes(v[2])

C5_Witness ==
    /\ pc = "done"
    /\ call = "proquints"
    /\ kind = "slice"
    /\ value = <<12, 110, 110, 204>>
    /\ result = Bytes(<<"b","u","d","o","v","-","k","u","r","a","s">>)

\* C6: with an input of odd length neither proquints nor proquints_buf gets
\* past the first assertion: nothing is written, nothing is returned, and the
\* call goes on until it has panicked.
C6_OddLengthFaults ==
    (pc # "as_bytes" /\ Len(input) % 2 = 1) =>
        /\ pc \in {"alloc", "assert_even", "panic"}
        /\ result = <<>>
        /\ Unwritten
        /\ pc = "panic" \/ ENABLED Next

C6_Witness ==
    /\ pc = "panic"
    /\ panic = "assert_even"
    /\ call = "proquints"
    /\ Len(input) = 3

\* C7: proquints_buf with an input of positive even length L and a buffer
\* shorter than output_length(L) never returns, and never writes a byte of the
\* buffer: the buffer stays as it was at the call.
C7_UndersizedBufferUntouched ==
    (call = "proquints_buf" /\ ValidInput
        /\ Len(buf) < (Len(input) \div 2) * 6 - 1) =>
        /\ pc # "done"
        /\ Unwritten
        /\ buf = Zeroed(Len(buf))

\* C8: proquints_buf with an input of positive even length L and a buffer of
\* at least output_length(L) bytes never panics, and returns the first
\* output_length(L) bytes of the buffer, the encoding of the input.
C8_SufficientBufferAccepted ==
    (call = "proquints_buf" /\ ValidInput
        /\ Len(buf) >= (Len(input) \div 2) * 6 - 1) =>
        /\ pc # "panic"
        /\ pc = "done" =>
              /\ result = SubSeq(buf, 1, (Len(input) \div 2) * 6 - 1)
              /\ result = ClaimEncoding(input, separator)

\* C9: proquints of a u16, u32 or u64 returns one syllable per 16 bits of the
\* value, the most significant 16 bits first and the least significant last;
\* proquints of an IPv4 or IPv6 address or of a byte slice encodes the octets
\* or the slice as given.
C9_BigEndianAdapter ==
    (pc = "done" /\ call = "proquints") =>
        IF kind \in {"u16", "u32", "u64"}
        THEN /\ Len(value) = SizeOf(kind) \div 2
             /\ Len(input) = SizeOf(kind)
             /\ \A j \in 1..Len(input) : input[j] = ClaimByte(value, Len(input), j)
             /\ Len(result) = 6 * Len(value) - 1
             /\ \A k \in 0..(Len(value) - 1) :
                   SubSeq(result, 6 * k + 1, 6 * k + 5)
                       = ClaimSyllable(value[Len(value) - k])
        ELSE IF kind \in {"ipv4", "ipv6", "slice"}
        THEN input = value /\ result = ClaimEncoding(value, Ascii["-"])
        ELSE TRUE

C9_Witness ==
    /\ pc = "done"
    /\ call = "proquints"
    /\ kind = "u64"
    /\ value = <<0, 1, 32512, 65535>>

\* C10: with an empty input neither proquints nor proquints_buf returns a
\* string, with overflow checks or with wrapping arithmetic.
C10_EmptyInputFaults ==
    (pc # "as_bytes" /\ Len(input) = 0) => pc # "done"

====
